---- MODULE Spec2Model ----
(***************************************************************************)
(* Point-cloud to mesh pipeline: the helper functions of                   *)
(* point_cloud_processor/utils.py and creator.py, the GUI handlers of      *)
(* point_cloud_processor/main.py (MainWindow.process_point_cloud,          *)
(* MainWindow.save_results) and the script creator.main.                   *)
(*                                                                         *)
(* Point clouds are mutable Open3D objects: they live in a heap and the    *)
(* program holds references (object ids, 0 = None).  Meshes are values.    *)
(* Relative radii are in tenths (the text "1.0" is the number 10), point   *)
(* spacings in whole grid units.  Floats are exact fractions or NaN.       *)
(***************************************************************************)
EXTENDS Integers, Sequences, FiniteSets, TLC

\* ------------------------------------------------------------------ bounds
MaxRuns  == 2      \* Process clicks explored (one cloud object each)
MaxTri   == 1      \* largest triangle count a reconstructor returns
MaxRows  == 2      \* largest number of points a file holds
MaxN     == 9      \* largest num_points of a direct generator call
MaxPts   == 4      \* largest cloud handed to a direct function call
MaxRadii == 2      \* longest radii list typed into the GUI
MaxSpacing == 2    \* largest mean point spacing of a cloud
MaxScale == 3      \* largest factor a cloud is scaled by
MaxCoord == 2      \* largest coordinate of a point given explicitly
MaxGrid  == 4      \* the samples of [0,1] explored are the multiples of 1/MaxGrid
MaxTree  == 3      \* largest cloud whose normals are oriented point by point
MaxFaces == 2      \* most triangles of a mesh given triangle by triangle
MaxIndex == 2      \* largest vertex index such a triangle names

\* ------------------------------------------------------- program constants
PointsSpinMin == 1000
PointsSpinMax == 50000
FaceCount     == 4
\* o3d_to_pyvista: np.zeros((len(faces), 4)) and faces_pv[:, 0] = 3.
FaceRowWidth    == 4
VerticesPerFace == 3
\* voxel_size = 0.01 of preprocess_point_cloud; explicit point coordinates
\* are in units of a quarter of it.
VoxelEdge     == 4

Min(a, b) == IF a < b THEN a ELSE b

\* ------------------------------------------------------------------ floats
\* A float is an exact number v/d in lowest terms (d > 0), or NaN.
Abs(x) == IF x < 0 THEN -x ELSE x
RECURSIVE GCD(_, _)
GCD(a, b) == IF b = 0 THEN a ELSE GCD(b, a % b)
Frac(n, d) ==
    LET g == GCD(Abs(n), d)
    IN  [nan |-> FALSE, v |-> n \div g, d |-> d \div g]
F(v) == [nan |-> FALSE, v |-> v, d |-> 1]
NaN  == [nan |-> TRUE, v |-> 0, d |-> 1]

\* r * avg_dist of ball_pivoting_reconstruction: NaN absorbs.
FMul(r, a) == IF r.nan \/ a.nan THEN NaN ELSE Frac(r.v * a.v, r.d * a.d)

\* np.mean: sum / count; over no element it is 0/0 = NaN (numpy warns, it
\* does not raise).
Mean(sum, count) == IF count = 0 THEN NaN ELSE Frac(sum, count)

RECURSIVE Sum(_)
Sum(seq) == IF seq = <<>> THEN 0 ELSE seq[1] + Sum(Tail(seq))

\* The elements of a finite set of integers in ascending order.
RECURSIVE Ascending(_)
Ascending(S) ==
    IF S = {} THEN <<>>
    ELSE LET m == CHOOSE x \in S : \A y \in S : x <= y
         IN  <<m>> \o Ascending(S \ {m})

\* IEEE arithmetic on these numbers: NaN absorbs, 0/0 is NaN and x/0 is an
\* infinity (d = 0, v = the sign).
FAdd(a, b) == IF a.nan \/ b.nan THEN NaN ELSE Frac(a.v * b.d + b.v * a.d, a.d * b.d)
FSub(a, b) == IF a.nan \/ b.nan THEN NaN ELSE Frac(a.v * b.d - b.v * a.d, a.d * b.d)
FDiv(a, b) ==
    IF a.nan \/ b.nan \/ (a.v = 0 /\ b.v = 0) THEN NaN
    ELSE IF b.v = 0 THEN [nan |-> FALSE, v |-> IF a.v < 0 THEN -1 ELSE 1, d |-> 0]
    ELSE IF b.v < 0 THEN Frac(-(a.v * b.d), a.d * (-b.v))
    ELSE Frac(a.v * b.d, a.d * b.v)
FAbs(a) == IF a.nan THEN NaN ELSE [a EXCEPT !.v = Abs(a.v)]
FLess(a, b) == ~a.nan /\ ~b.nan /\ a.v * b.d < b.v * a.d
\* np.sum and np.max over a nonempty array; np.max propagates NaN.
RECURSIVE FSum(_)
FSum(seq) == IF Len(seq) = 0 THEN F(0) ELSE FAdd(seq[1], FSum(Tail(seq)))
RECURSIVE FMax(_)
FMax(seq) ==
    IF Len(seq) = 1 THEN seq[1]
    ELSE LET m == FMax(Tail(seq))
         IN  IF seq[1].nan \/ m.nan THEN NaN
             ELSE IF FLess(seq[1], m) THEN m ELSE seq[1]

\* ------------------------------------------------------------------ clouds
\* live: the slot holds an object; n: number of points; normals: a normals
\* array of n entries is present; prep: the points were centred and scaled
\* by preprocess_point_cloud; nn: nearest-neighbour spacing of the points.
Cloud(n, normals, prep, nn) ==
    [live |-> TRUE, n |-> n, normals |-> normals, prep |-> prep, nn |-> nn]
FreeSlot == [live |-> FALSE, n |-> 0, normals |-> FALSE, prep |-> FALSE, nn |-> 0]
ObjIds == 1..(MaxRuns + 1)
\* The spacings explored: the smallest and the largest.
Spacings == {1, MaxSpacing}
EmptyHeap == [i \in ObjIds |-> FreeSlot]

\* Open3D PointCloud.has_normals: there are points, and a normal for each.
HasNormals(c) == c.n > 0 /\ c.normals

\* ------------------------------------------------------------------ meshes
Mesh(tri, src) == [isNone |-> FALSE, tri |-> tri, src |-> src]
NoneMesh == [isNone |-> TRUE, tri |-> 0, src |-> 0]
HasTriangles(m) == m.tri > 0
\* Mutant of MeshUsable: the has_triangles() test is forgotten.
MeshUsable_NoTriangleTest(m) == ~m.isNone

\* Python truthiness of "self.poisson_mesh and self.poisson_mesh.has_triangles()"
MeshUsable(m) == ~m.isNone /\ HasTriangles(m)
\* The triangle counts explored: none, and some.
TriCounts == {0, MaxTri}

\* ------------------------------------------------------- results of a call
Ok(fields)     == [status |-> "ok", err |-> "none"] @@ fields
Raise(e, fields) == [status |-> "raise", err |-> e] @@ fields

\* -------------------------------------------------------------- generators
\* generate_sphere_point_cloud: numpy draws num_points angles, one point each.
generate_sphere_point_cloud(num_points) == num_points

\* np.vstack(all_points) after the loop over the faces: points_per_face
\* samples of face 1, then of face 2, ...; a point is named by its face.
SampledFacePoints(points_per_face) ==
    [i \in 1..(FaceCount * points_per_face) |-> ((i - 1) \div points_per_face) + 1]

\* Python's s[:k]: the first k elements, or all of s when it has fewer.
Slice(s, k) == SubSeq(s, 1, Min(k, Len(s)))

\* The "adjust to exact num_points" step: truncate, or pad with points[:extra].
PadOrTruncate(points, num_points) ==
    IF Len(points) > num_points THEN Slice(points, num_points)
    ELSE IF Len(points) < num_points
         THEN points \o Slice(points, num_points - Len(points))
         ELSE points

\* generate_tetrahedron_point_cloud(num_points): the points of the cloud.
generate_tetrahedron_point_cloud(num_points) ==
    PadOrTruncate(SampledFacePoints(num_points \div FaceCount), num_points)

\* The barycentric sampling of one face, for one sampled pair (u, v):
\*   mask = u + v > 1; u[mask] = 1 - u[mask]; v[mask] = 1 - v[mask]
\*   w = 1 - u - v; points = v0 * w + v1 * u + v2 * v
\* The weights of v0, v1, v2.
BarycentricWeights_ReflectU(u, v) ==
    LET mask == FLess(F(1), FAdd(u, v))
        u1 == IF mask THEN FSub(F(1), u) ELSE u
    IN  [w |-> FSub(FSub(F(1), u1), v), u |-> u1, v |-> v]
BarycentricWeights(u, v) ==
    LET mask == FLess(F(1), FAdd(u, v))
        u1 == IF mask THEN FSub(F(1), u) ELSE u
        v1 == IF mask THEN FSub(F(1), v) ELSE v
    IN  [w |-> FSub(FSub(F(1), u1), v1), u |-> u1, v |-> v1]
\* The values np.random.uniform(0, 1, ...) is sampled at.
UnitSamples == {Frac(k, MaxGrid) : k \in 0..MaxGrid}

\* ------------------------------------------------------------------- files
\* What load_point_cloud can tell about a path: whether it exists, how it
\* ends, how many points its content holds and whether every line parses.
Extensions == {"xyz", "pcd", "txt"}
Files == [exists : BOOLEAN, ext : Extensions, rows : {0, 1, MaxRows}, wellformed : BOOLEAN]

\* np.loadtxt followed by Vector3dVector.  A malformed line makes loadtxt
\* raise ValueError.  Two or more rows give an (rows, 3) array.  With one row
\* or none loadtxt returns a 1-D array, which the conversion either rejects
\* (RuntimeError) or accepts, depending on the installed build: both outcomes
\* are kept.  The result is the set of possible (status, err, n).
LoadXyz(f) ==
    IF ~f.wellformed THEN {Raise("FormatError", [n |-> 0])}
    ELSE IF f.rows >= 2 THEN {Ok([n |-> f.rows])}
    ELSE {Ok([n |-> f.rows]), Raise("RuntimeError", [n |-> 0])}

\* o3d.io.read_point_cloud never raises: an unreadable file gives no points.
\* Then the has_points check of load_point_cloud.
LoadPcd(f) ==
    LET n == IF f.wellformed THEN f.rows ELSE 0
    IN  IF n = 0 THEN {Raise("EmptyResultError", [n |-> 0])} ELSE {Ok([n |-> n])}

\* Mutant of load_point_cloud: the extension is tested before the existence.
load_point_cloud_ExtensionFirst(f) ==
    IF f.ext \notin {"xyz", "pcd"} THEN {Raise("FormatError", [n |-> 0, ext |-> "none"])}
    ELSE IF ~f.exists THEN {Raise("NotFoundError", [n |-> 0, ext |-> "none"])}
    ELSE IF f.ext = "xyz" THEN {r @@ [ext |-> "loadtxt"] : r \in LoadXyz(f)}
    ELSE {r @@ [ext |-> "read_point_cloud"] : r \in LoadPcd(f)}

\* load_point_cloud(file_path): the set of possible outcomes.  FileNotFoundError
\* is NotFoundError, ValueError("Unsupported file format") is FormatError,
\* ValueError("no points found") is EmptyResultError; ext names the external
\* loader that was invoked ("none" when none was).
load_point_cloud(f) ==
    IF ~f.exists THEN {Raise("NotFoundError", [n |-> 0, ext |-> "none"])}
    ELSE IF f.ext = "xyz" THEN {r @@ [ext |-> "loadtxt"] : r \in LoadXyz(f)}
    ELSE IF f.ext = "pcd" THEN {r @@ [ext |-> "read_point_cloud"] : r \in LoadPcd(f)}
    ELSE {Raise("FormatError", [n |-> 0, ext |-> "none"])}

\* ------------------------------------------------------- normal estimation
\* pcd.estimate_normals: in place, the normals array gets one entry per
\* point; a point with too few neighbours silently gets a default normal.
estimate_normals(c) == [c EXCEPT !.normals = TRUE]

\* orient_normals(pcd, k): both library calls act on the caller's object and
\* that same object is returned.  orient_normals_consistent_tangent_plane
\* raises when the cloud has no normals (a cloud without points never has).
\* reported: the points for which a failure is reported to the caller; the
\* function has no such output.
orient_normals(h, id) ==
    LET h1 == [h EXCEPT ![id] = estimate_normals(h[id])]
    IN  IF ~HasNormals(h1[id])
        THEN Raise("RuntimeError", [heap |-> h1, ret |-> 0, reported |-> {}])
        ELSE Ok([heap |-> h1, ret |-> id, reported |-> {}])

\* Sign propagation of orient_normals_consistent_tangent_plane, the step the
\* specification describes for estimateAndOrient: traverse the spanning
\* structure from the root with a queue; a point is marked visited when it is
\* taken from the queue, and each neighbour not yet visited is queued after
\* its normal was flipped if its dot product with the normal of the point
\* just taken is negative.  Point 1 is the root; parent[i] is the spanning
\* edge that ties point i to an earlier point (0: none, the point is not in
\* the root's tree or is the root).  Normals are plane vectors; only the
\* sign of a dot product matters.
Dot(a, b) == a[1] * b[1] + a[2] * b[2]
Neg(a) == <<-a[1], -a[2]>>
TestAndOrientNormal_NeverFlips(n0, n1) == n1
TestAndOrientNormal(n0, n1) == IF Dot(n0, n1) < 0 THEN Neg(n1) ELSE n1
Neighbours(parent, v) ==
    {w \in DOMAIN parent : parent[w] = v} \cup ({parent[v]} \ {0})
RECURSIVE Propagate(_, _, _, _, _)
Propagate(queue, parent, normals, visits, flips) ==
    IF queue = <<>>
    THEN [normals |-> normals, visits |-> visits, flips |-> flips]
    ELSE LET v == Head(queue)
             visited == [visits EXCEPT ![v] = @ + 1]
             fresh == {w \in Neighbours(parent, v) : visited[w] = 0}
             oriented == [w \in DOMAIN normals |->
                             IF w \in fresh
                             THEN TestAndOrientNormal(normals[v], normals[w])
                             ELSE normals[w]]
             flipped == [w \in DOMAIN flips |->
                            IF oriented[w] # normals[w] THEN flips[w] + 1 ELSE flips[w]]
         IN  Propagate(Tail(queue) \o Ascending(fresh), parent, oriented,
                       visited, flipped)
PropagateSigns(parent, normals) ==
    Propagate(<<1>>, parent, normals, [i \in DOMAIN normals |-> 0],
              [i \in DOMAIN normals |-> 0])

\* ---------------------------------------------------------- reconstruction
\* TriangleMesh.create_from_point_cloud_poisson and compute_vertex_normals:
\* the library raises on a cloud without normals; otherwise the triangle
\* count depends on the geometry (0 is possible).  The cloud is only read.
poisson_reconstruction(h, id) ==
    IF ~HasNormals(h[id])
    THEN {Raise("RuntimeError", [mesh |-> NoneMesh])}
    ELSE {Ok([mesh |-> Mesh(t, id)]) : t \in TriCounts}

\* pcd.compute_nearest_neighbor_distance: one distance per point, 0 for every
\* point of a cloud with fewer than 2 points; here their sum.
NearestNeighborDistanceSum(c) == IF c.n < 2 THEN 0 ELSE c.n * c.nn

\* radii = [r * avg_dist for r in radii]
ScaleRadii_Unscaled(radii, avg_dist) == radii
ScaleRadii(radii, avg_dist) == [i \in DOMAIN radii |-> FMul(radii[i], avg_dist)]

\* avg_dist = np.mean(distances) and the list comprehension, given the sum
\* and the number of the distances: the absolute radii handed to the
\* library, in the order of the caller's list.
AbsoluteRadii(sum, count, radii) == ScaleRadii(radii, Mean(sum, count))

\* TriangleMesh.create_from_point_cloud_ball_pivoting: the library raises on
\* a cloud without normals and on a radius <= 0 (NaN <= 0 is false).
BallPivotingRejects(c, radii) ==
    \/ ~HasNormals(c)
    \/ \E i \in DOMAIN radii : ~radii[i].nan /\ radii[i].v <= 0

\* ball_pivoting_reconstruction(pcd, radii): the set of possible outcomes.
\* radii: the list handed to the library, in the order of its passes; arg:
\* the caller's list object after the call (the comprehension builds a new
\* list and rebinds the local name, the caller's list is not written).
ball_pivoting_reconstruction_InPlace(h, id, radii) ==
    LET abs == AbsoluteRadii(NearestNeighborDistanceSum(h[id]), h[id].n, radii)
    IN  IF BallPivotingRejects(h[id], abs)
        THEN {Raise("RuntimeError", [mesh |-> NoneMesh, radii |-> abs, arg |-> abs])}
        ELSE {Ok([mesh |-> Mesh(t, id), radii |-> abs, arg |-> abs]) : t \in TriCounts}
ball_pivoting_reconstruction(h, id, radii) ==
    LET abs == AbsoluteRadii(NearestNeighborDistanceSum(h[id]), h[id].n, radii)
    IN  IF BallPivotingRejects(h[id], abs)
        THEN {Raise("RuntimeError", [mesh |-> NoneMesh, radii |-> abs, arg |-> radii])}
        ELSE {Ok([mesh |-> Mesh(t, id), radii |-> abs, arg |-> radii]) : t \in TriCounts}

\* Default radii of utils.ball_pivoting_reconstruction and of creator's.
UtilsDefaultRadii == <<F(10), F(20), F(40), F(80), F(160)>>
CreatorDefaultRadii == <<F(1), F(2), F(5), F(10), F(20), F(40)>>

\* ----------------------------------------------------------- preprocessing
\* preprocess_point_cloud(pcd): np.asarray(pcd.points) is a view of the
\* caller's object, so centring and scaling act on it and pcd.points is
\* assigned on it; np.max over no point raises ValueError.  voxel_down_sample
\* then returns a new object (slot new) with at most as many points, keeping
\* the normals; its spacing depends on the geometry.
preprocess_point_cloud(h, id, new) ==
    IF h[id].n = 0
    THEN {Raise("ValueError", [heap |-> h, ret |-> 0])}
    ELSE LET h1 == [h EXCEPT ![id].prep = TRUE]
         IN  {Ok([heap |-> [h1 EXCEPT ![new] = Cloud(m, h1[id].normals, TRUE, s)],
                  ret |-> new]) : m \in 1..h[id].n, s \in Spacings}

\* The centring and scaling of preprocess_point_cloud on explicit points.
\* The points lie on one coordinate axis, so a point is its coordinate and
\* np.linalg.norm is the absolute value.
\*   center = points.mean(axis=0); points -= center
\*   scale = np.max(np.linalg.norm(points, axis=1)); points /= scale
Centroid(points) == FDiv(FSum(points), F(Len(points)))
MaxNorm(points) == FMax([i \in DOMAIN points |-> FAbs(points[i])])
Normalize(points) ==
    LET center == Centroid(points)
        centred == [i \in DOMAIN points |-> FSub(points[i], center)]
        scale == MaxNorm(centred)
    IN  [i \in DOMAIN points |-> FDiv(centred[i], scale)]

\* PointCloud.voxel_down_sample(voxel_size) on explicit points of one axis.
\* The library anchors the grid at the cloud itself,
\*   voxel_min_bound = GetMinBound() - voxel_size * 0.5
\*   voxel_index = floor((point - voxel_min_bound) / voxel_size),
\* and returns the centroid of each occupied cell (here in cell order; the
\* library's order is that of a hash map).
FFloor(a) == a.v \div a.d
RECURSIVE FMin(_)
FMin(seq) ==
    IF Len(seq) = 1 THEN seq[1]
    ELSE LET m == FMin(Tail(seq))
         IN  IF FLess(m, seq[1]) THEN m ELSE seq[1]
VoxelIndex(point, voxel_min_bound, voxel_size) ==
    FFloor(FDiv(FSub(point, voxel_min_bound), voxel_size))
RECURSIVE SumOver(_, _)
SumOver(points, I) ==
    IF I = {} THEN F(0)
    ELSE LET i == CHOOSE j \in I : TRUE
         IN  FAdd(points[i], SumOver(points, I \ {i}))
VoxelDownSample(points, voxel_size) ==
    IF Len(points) = 0 THEN <<>>
    ELSE LET voxel_min_bound == FSub(FMin(points), FDiv(voxel_size, F(2)))
             index == [i \in DOMAIN points |->
                          VoxelIndex(points[i], voxel_min_bound, voxel_size)]
             cells == Ascending({index[i] : i \in DOMAIN points})
             Members(k) == {i \in DOMAIN points : index[i] = cells[k]}
         IN  [k \in DOMAIN cells |->
                 FDiv(SumOver(points, Members(k)), F(Cardinality(Members(k))))]

\* ---------------------------------------------------------- o3d_to_pyvista
\* The mesh branch of o3d_to_pyvista on the triangle array (one row of three
\* vertex indices per triangle; indices count from 0, rows and columns of
\* the arrays here from 1):
\*   faces_pv = np.zeros((len(faces), 4), dtype=np.int64)
\*   faces_pv[:, 0] = 3
\*   faces_pv[:, 1:4] = faces
\*   faces_pv = faces_pv.flatten()
Zeros(rows, cols) == [i \in 1..rows |-> [j \in 1..cols |-> 0]]
SetColumn(a, col, value) == [i \in DOMAIN a |-> [a[i] EXCEPT ![col] = value]]
SetColumns(a, first, b) ==
    [i \in DOMAIN a |->
        [j \in DOMAIN a[i] |->
            IF j >= first /\ j - first + 1 \in DOMAIN b[i]
            THEN b[i][j - first + 1] ELSE a[i][j]]]
\* ndarray.flatten(): row-major order.
Flatten_ColumnMajor(a, cols) ==
    [k \in 1..(Len(a) * cols) |-> a[((k - 1) % Len(a)) + 1][((k - 1) \div Len(a)) + 1]]
Flatten(a, cols) ==
    [k \in 1..(Len(a) * cols) |-> a[((k - 1) \div cols) + 1][((k - 1) % cols) + 1]]
FacesPv(faces) ==
    LET zeros == Zeros(Len(faces), FaceRowWidth)
        counted == SetColumn(zeros, 1, VerticesPerFace)
        filled == SetColumns(counted, 2, faces)
    IN  Flatten(filled, FaceRowWidth)
\* pv.PolyData(vertices, faces_pv): the vertex array is handed over as it is.
o3d_to_pyvista(vertices, triangles) ==
    [vertices |-> vertices, faces |-> FacesPv(triangles)]

\* ------------------------------------------------------------ GUI widgets
Sources == {"Generate Sphere", "Generate Pyramid", "Upload File"}
\* points_spin is a QSpinBox over PointsSpinMin..PointsSpinMax; of its values
\* the smallest and the next one (a multiple of 4 and a non-multiple).
SpinValues == PointsSpinMin..Min(PointsSpinMax, PointsSpinMin + 1)

\* ball_radii_edit.text().split(","): the pieces of the text.
Tokens == {"1.0", "2.0", "0", "abc"}
RadiiTexts == UNION {[1..k -> Tokens] : k \in 1..MaxRadii}
\* float(r.strip()) raises ValueError on a piece that is no number.
IsFloat(tok) == tok \in {"1.0", "2.0", "0"}
ParseFloat(tok) == IF tok = "1.0" THEN F(10) ELSE IF tok = "2.0" THEN F(20) ELSE F(0)
ParseRadii(text) ==
    IF \A i \in DOMAIN text : IsFloat(text[i])
    THEN Ok([radii |-> [i \in DOMAIN text |-> ParseFloat(text[i])]])
    ELSE Raise("ValueError", [radii |-> <<>>])

\* ------------------------------------------------------------------- state
VARIABLES
    prog,             \* which program runs: "gui", "cli" (creator.main), "unit"
    pc,               \* the statement the running handler is at
    heap,             \* the point-cloud objects
    point_cloud,      \* self.point_cloud / main's pcd: an object id, 0 = None
    poisson_mesh,     \* self.poisson_mesh / main's poisson_mesh
    ball_pivot_mesh,  \* self.ball_pivot_mesh / main's ball_pivot_mesh
    save_enabled,     \* save_button.isEnabled()
    source_combo,     \* source_combo.currentText() as the run reads it
    normal_check,     \* the three check boxes as the run reads them
    poisson_check,
    ball_pivot_check,
    view,             \* what the plotters / windows show, and the info labels
    disk,             \* the output files
    written,          \* what the last Save Results wrote
    log,              \* the calls of the current run, in order
    runs,             \* Process clicks so far
    call,             \* the last direct call of a function and its outcome
    prev,             \* the direct call before it
    rng,              \* NumPy's global random generator: the draws made so far
    default_radii     \* the default radii list objects of the two
                      \* ball_pivoting_reconstruction functions

widgets == <<source_combo, normal_check, poisson_check, ball_pivot_check>>
results == <<poisson_mesh, ball_pivot_mesh>>
vars == <<prog, pc, heap, point_cloud, poisson_mesh, ball_pivot_mesh, save_enabled,
          source_combo, normal_check, poisson_check, ball_pivot_check,
          view, disk, written, log, runs, call, prev, rng, default_radii>>
session == <<prev, rng, default_radii>>

Ev(e, o, r) == [ev |-> e, obj |-> o, res |-> r]
\* How a reconstructor's return is recorded.
MeshRes(m) == IF HasTriangles(m) THEN "triangles" ELSE "empty"

NoView == [input |-> 0, normals |-> 0, poisson |-> NoneMesh, ball_pivot |-> NoneMesh,
           poisson_info |-> "none", ball_pivot_info |-> "none"]
NoDisk == [pcd |-> 0, poisson |-> NoneMesh, ball_pivot |-> NoneMesh]
NoCall == [fn |-> "none"]

\* MainWindow.__init__ and setup_control_panel; the first statement of
\* creator.main; a test bench that calls the functions directly.
Init ==
    /\ prog \in {"gui", "cli", "unit"}
    /\ pc = IF prog = "gui" THEN "idle" ELSE IF prog = "cli" THEN "load" ELSE "unit"
    /\ heap = EmptyHeap
    /\ point_cloud = 0
    /\ poisson_mesh = NoneMesh
    /\ ball_pivot_mesh = NoneMesh
    /\ save_enabled = FALSE
    /\ source_combo = "Generate Sphere"
    /\ normal_check = TRUE
    /\ poisson_check = TRUE
    /\ ball_pivot_check = TRUE
    /\ view = NoView
    /\ disk = NoDisk
    /\ written = NoDisk
    /\ log = <<>>
    /\ runs = 0
    /\ call = NoCall
    /\ prev = NoCall
    /\ rng = 0
    /\ default_radii = [utils |-> UtilsDefaultRadii, creator |-> CreatorDefaultRadii]

\* ------------------------------------------------- MainWindow (main.py)
\* self.point_cloud = <new object>: the object made in run number runs gets
\* id runs; the object held before loses its last reference and is freed.
StoreNewCloud(c) ==
    /\ heap' = [i \in ObjIds |-> IF i = runs THEN c
                                 ELSE IF i = point_cloud THEN FreeSlot ELSE heap[i]]
    /\ point_cloud' = runs

\* The handler's outer "except Exception": show_error and return.
ProcessingError(events) ==
    /\ log' = log \o events \o <<Ev("show_error", 0, "Processing error")>>
    /\ pc' = "return"

\* The user sets the source and the check boxes and clicks Process.
ProcessStart ==
    /\ prog = "gui" /\ pc = "idle" /\ runs < MaxRuns
    /\ source_combo' \in Sources
    /\ normal_check' \in BOOLEAN
    /\ poisson_check' \in BOOLEAN
    /\ ball_pivot_check' \in BOOLEAN
    /\ runs' = runs + 1
    /\ pc' = "source"
    /\ UNCHANGED <<session, written, prog, log, heap, point_cloud, results,
                   save_enabled, view, disk, call>>

\* source == "Generate Sphere", then visualize_input.
ProcessGenerateSphere ==
    /\ prog = "gui" /\ pc = "source" /\ source_combo = "Generate Sphere"
    /\ \E num_points \in SpinValues, s \in Spacings :
          StoreNewCloud(Cloud(generate_sphere_point_cloud(num_points), FALSE, FALSE, s))
    /\ view' = [view EXCEPT !.input = runs]
    /\ log' = log \o <<Ev("generate", runs, "ok"), Ev("visualize_input", runs, "ok")>>
    /\ pc' = "normals"
    /\ rng' = rng + 1
    /\ UNCHANGED <<prev, default_radii, written, prog, results, save_enabled,
                   widgets, disk, runs, call>>

\* source == "Generate Pyramid", then visualize_input.
ProcessGeneratePyramid ==
    /\ prog = "gui" /\ pc = "source" /\ source_combo = "Generate Pyramid"
    /\ \E num_points \in SpinValues, s \in Spacings :
          StoreNewCloud(Cloud(Len(generate_tetrahedron_point_cloud(num_points)),
                              FALSE, FALSE, s))
    /\ view' = [view EXCEPT !.input = runs]
    /\ log' = log \o <<Ev("generate", runs, "ok"), Ev("visualize_input", runs, "ok")>>
    /\ pc' = "normals"
    /\ rng' = rng + 1
    /\ UNCHANGED <<prev, default_radii, written, prog, results, save_enabled,
                   widgets, disk, runs, call>>

\* source == "Upload File" with an empty tool tip: show_error and return.
ProcessUploadNoFile_EnablesSave ==
    /\ prog = "gui" /\ pc = "source" /\ source_combo = "Upload File"
    /\ log' = log \o <<Ev("show_error", 0, "Please select a file first")>>
    /\ pc' = "return"
    /\ save_enabled' = TRUE
    /\ UNCHANGED <<session, written, prog, heap, point_cloud, results,
                   widgets, view, disk, runs, call>>
ProcessUploadNoFile ==
    /\ prog = "gui" /\ pc = "source" /\ source_combo = "Upload File"
    /\ log' = log \o <<Ev("show_error", 0, "Please select a file first")>>
    /\ pc' = "return"
    /\ UNCHANGED <<session, written, prog, heap, point_cloud, results,
                   save_enabled, widgets, view, disk, runs, call>>

\* source == "Upload File" with a file selected: load_point_cloud in its own
\* try; on an exception show_error and return, else visualize_input.
ProcessUpload_DropsCloudOnError ==
    /\ prog = "gui" /\ pc = "source" /\ source_combo = "Upload File"
    /\ \E f \in Files, s \in Spacings : \E r \in load_point_cloud(f) :
          IF r.status = "ok"
          THEN /\ StoreNewCloud(Cloud(r.n, FALSE, FALSE, s))
               /\ view' = [view EXCEPT !.input = runs]
               /\ log' = log \o <<Ev("load", runs, "ok"),
                                  Ev("visualize_input", runs, "ok")>>
               /\ pc' = "normals"
          ELSE /\ log' = log \o <<Ev("load", 0, r.err),
                                  Ev("show_error", 0, "Error loading file")>>
               /\ pc' = "return"
               /\ point_cloud' = 0
               /\ UNCHANGED <<heap, view>>
    /\ UNCHANGED <<session, written, prog, results, save_enabled, widgets, disk,
                   runs, call>>
ProcessUpload ==
    /\ prog = "gui" /\ pc = "source" /\ source_combo = "Upload File"
    /\ \E f \in Files, s \in Spacings : \E r \in load_point_cloud(f) :
          IF r.status = "ok"
          THEN /\ StoreNewCloud(Cloud(r.n, FALSE, FALSE, s))
               /\ view' = [view EXCEPT !.input = runs]
               /\ log' = log \o <<Ev("load", runs, "ok"),
                                  Ev("visualize_input", runs, "ok")>>
               /\ pc' = "normals"
          ELSE /\ log' = log \o <<Ev("load", 0, r.err),
                                  Ev("show_error", 0, "Error loading file")>>
               /\ pc' = "return"
               /\ UNCHANGED <<heap, point_cloud, view>>
    /\ UNCHANGED <<session, written, prog, results, save_enabled, widgets, disk,
                   runs, call>>

\* "if self.normal_check.isChecked()": orient_normals, then visualize_normals.
ProcessNormals ==
    /\ prog = "gui" /\ pc = "normals"
    /\ IF normal_check
       THEN LET r == orient_normals(heap, point_cloud)
            IN  /\ heap' = r.heap
                /\ IF r.status = "ok"
                   THEN /\ point_cloud' = r.ret
                        /\ view' = [view EXCEPT !.normals = r.ret]
                        /\ log' = log \o <<Ev("orient_normals", point_cloud, "ok"),
                                           Ev("visualize_normals", r.ret, "ok")>>
                        /\ pc' = "poisson"
                   ELSE /\ ProcessingError(<<Ev("orient_normals", point_cloud, "raise")>>)
                        /\ UNCHANGED <<point_cloud, view>>
       ELSE /\ pc' = "poisson"
            /\ UNCHANGED <<heap, point_cloud, view, log>>
    /\ UNCHANGED <<session, written, prog, results, save_enabled, widgets, disk,
                   runs, call>>

\* visualize_poisson / visualize_ball_pivot: the plotter is cleared; the mesh
\* is drawn only if it has triangles, else the label reports the failure.
Visualize(m) == IF MeshUsable(m) THEN m ELSE NoneMesh
Failed == "failed: no triangles generated"
InfoText(m) == IF MeshUsable(m) THEN "triangles" ELSE Failed

\* "if self.poisson_check.isChecked()": poisson_reconstruction, visualize_poisson.
ProcessPoisson ==
    /\ prog = "gui" /\ pc = "poisson"
    /\ IF poisson_check
       THEN \E r \in poisson_reconstruction(heap, point_cloud) :
              IF r.status = "ok"
              THEN /\ poisson_mesh' = r.mesh
                   /\ view' = [view EXCEPT !.poisson = Visualize(r.mesh),
                                           !.poisson_info = InfoText(r.mesh)]
                   /\ log' = log \o <<Ev("poisson", point_cloud, MeshRes(r.mesh)),
                                      Ev("visualize_poisson", point_cloud, InfoText(r.mesh))>>
                   /\ pc' = "ball_pivot"
              ELSE /\ ProcessingError(<<Ev("poisson", point_cloud, "raise")>>)
                   /\ UNCHANGED <<poisson_mesh, view>>
       ELSE /\ pc' = "ball_pivot"
            /\ UNCHANGED <<poisson_mesh, view, log>>
    /\ UNCHANGED <<session, written, prog, heap, point_cloud, ball_pivot_mesh,
                   save_enabled, widgets, disk, runs, call>>

\* "if self.ball_pivot_check.isChecked()": in its own try, the radii text is
\* parsed, ball_pivoting_reconstruction runs and visualize_ball_pivot shows
\* the mesh; on an exception show_error, and the handler goes on.
ProcessBallPivot ==
    /\ prog = "gui" /\ pc = "ball_pivot"
    /\ IF ball_pivot_check
       THEN \E text \in RadiiTexts :
              LET p == ParseRadii(text)
              IN  IF p.status = "raise"
                  THEN /\ log' = log \o <<Ev("parse_radii", 0, "raise"),
                                           Ev("show_error", 0, "Ball Pivoting failed")>>
                       /\ UNCHANGED <<ball_pivot_mesh, view>>
                  ELSE \E r \in ball_pivoting_reconstruction(heap, point_cloud, p.radii) :
                         IF r.status = "ok"
                         THEN /\ ball_pivot_mesh' = r.mesh
                              /\ view' = [view EXCEPT !.ball_pivot = Visualize(r.mesh),
                                                      !.ball_pivot_info = InfoText(r.mesh)]
                              /\ log' = log \o <<Ev("ball_pivot", point_cloud, MeshRes(r.mesh)),
                                                 Ev("visualize_ball_pivot", point_cloud,
                                                    InfoText(r.mesh))>>
                         ELSE /\ log' = log \o <<Ev("ball_pivot", point_cloud, "raise"),
                                                 Ev("show_error", 0, "Ball Pivoting failed")>>
                              /\ UNCHANGED <<ball_pivot_mesh, view>>
       ELSE UNCHANGED <<ball_pivot_mesh, view, log>>
    /\ pc' = "finish"
    /\ UNCHANGED <<session, written, prog, heap, point_cloud, poisson_mesh,
                   save_enabled, widgets, disk, runs, call>>

\* self.save_button.setEnabled(True) and the status message.
ProcessFinish ==
    /\ prog = "gui" /\ pc = "finish"
    /\ save_enabled' = TRUE
    /\ log' = log \o <<Ev("enable_save", 0, "ok")>>
    /\ pc' = "return"
    /\ UNCHANGED <<session, written, prog, heap, point_cloud, results, widgets,
                   view, disk, runs, call>>

\* process_point_cloud returns to the event loop; the record of its calls
\* is dropped.
ProcessReturn ==
    /\ prog = "gui" /\ pc = "return"
    /\ log' = <<>>
    /\ pc' = "idle"
    /\ UNCHANGED <<session, written, prog, heap, point_cloud, results,
                   save_enabled, widgets, view, disk, runs, call>>

\* save_results: the button can be clicked only when enabled.  Without a
\* point cloud show_error; the directory dialog may be cancelled; else the
\* cloud is written, and each mesh that is set and has triangles.
SaveResults ==
    /\ prog = "gui" /\ pc = "idle" /\ save_enabled
    /\ \E save_dir \in BOOLEAN :
          IF point_cloud # 0 /\ save_dir
          THEN /\ written' = [pcd |-> point_cloud,
                              poisson |-> IF MeshUsable(poisson_mesh)
                                          THEN poisson_mesh ELSE NoneMesh,
                              ball_pivot |-> IF MeshUsable(ball_pivot_mesh)
                                             THEN ball_pivot_mesh ELSE NoneMesh]
               /\ disk' = [pcd |-> point_cloud,
                           poisson |-> IF MeshUsable(poisson_mesh)
                                       THEN poisson_mesh ELSE disk.poisson,
                           ball_pivot |-> IF MeshUsable(ball_pivot_mesh)
                                          THEN ball_pivot_mesh ELSE disk.ball_pivot]
          ELSE UNCHANGED <<disk, written>>
    /\ UNCHANGED <<session, prog, pc, heap, point_cloud, results, save_enabled,
                   widgets, view, log, runs, call>>

GuiNext ==
    \/ ProcessStart
    \/ ProcessGenerateSphere
    \/ ProcessGeneratePyramid
    \/ ProcessUploadNoFile
    \/ ProcessUpload
    \/ ProcessNormals
    \/ ProcessPoisson
    \/ ProcessBallPivot
    \/ ProcessFinish
    \/ ProcessReturn
    \/ SaveResults

\* ------------------------------------------------------ creator.main
\* The script's fixed path ends in .pcd; whether the file exists and what it
\* holds is the environment's.
MainFiles == {f \in Files : f.ext = "pcd"}

\* An exception outside main's only try ends the script with a traceback.
Crash(events) ==
    /\ log' = log \o events
    /\ pc' = "crashed"

\* load_point_cloud in a try (on an exception print and return), then the raw
\* cloud is shown.
MainLoad ==
    /\ prog = "cli" /\ pc = "load"
    /\ \E f \in MainFiles, s \in Spacings : \E r \in load_point_cloud(f) :
          IF r.status = "ok"
          THEN /\ heap' = [heap EXCEPT ![1] = Cloud(r.n, FALSE, FALSE, s)]
               /\ point_cloud' = 1
               /\ view' = [view EXCEPT !.input = 1]
               /\ log' = log \o <<Ev("load", 1, "ok"), Ev("visualize_input", 1, "ok")>>
               /\ pc' = "normals"
          ELSE /\ log' = log \o <<Ev("load", 0, r.err)>>
               /\ pc' = "done"
               /\ UNCHANGED <<heap, point_cloud, view>>
    /\ UNCHANGED <<session, written, prog, results, save_enabled, widgets, disk,
                   runs, call>>

\* pcd = orient_normals(pcd), then the cloud with normals is shown.
MainNormals ==
    /\ prog = "cli" /\ pc = "normals"
    /\ LET r == orient_normals(heap, point_cloud)
       IN  /\ heap' = r.heap
           /\ IF r.status = "ok"
              THEN /\ point_cloud' = r.ret
                   /\ view' = [view EXCEPT !.normals = r.ret]
                   /\ log' = log \o <<Ev("orient_normals", point_cloud, "ok"),
                                      Ev("visualize_normals", r.ret, "ok")>>
                   /\ pc' = "poisson"
              ELSE /\ Crash(<<Ev("orient_normals", point_cloud, "raise")>>)
                   /\ UNCHANGED <<point_cloud, view>>
    /\ UNCHANGED <<session, written, prog, results, save_enabled, widgets, disk,
                   runs, call>>

\* poisson_reconstruction(pcd, depth=8); with triangles the mesh is written
\* to poisson_mesh.ply and shown, else the failure is printed.
MainPoisson ==
    /\ prog = "cli" /\ pc = "poisson"
    /\ \E r \in poisson_reconstruction(heap, point_cloud) :
          IF r.status = "ok"
          THEN /\ poisson_mesh' = r.mesh
               /\ disk' = IF HasTriangles(r.mesh)
                          THEN [disk EXCEPT !.poisson = r.mesh] ELSE disk
               /\ view' = IF HasTriangles(r.mesh)
                          THEN [view EXCEPT !.poisson = r.mesh, !.poisson_info = InfoText(r.mesh)]
                          ELSE [view EXCEPT !.poisson_info = InfoText(r.mesh)]
               /\ log' = log \o <<Ev("poisson", point_cloud, MeshRes(r.mesh)),
                                  Ev("visualize_poisson", point_cloud, InfoText(r.mesh))>>
               /\ pc' = "ball_pivot"
          ELSE /\ Crash(<<Ev("poisson", point_cloud, "raise")>>)
               /\ UNCHANGED <<poisson_mesh, disk, view>>
    /\ UNCHANGED <<session, written, prog, heap, point_cloud, ball_pivot_mesh,
                   save_enabled, widgets, runs, call>>

\* ball_pivoting_reconstruction(pcd) with creator's default radii; with
\* triangles the mesh is written to ball_pivot_mesh.ply and shown, else the
\* failure is printed.
MainBallPivot ==
    /\ prog = "cli" /\ pc = "ball_pivot"
    /\ \E r \in ball_pivoting_reconstruction(heap, point_cloud, default_radii.creator) :
       /\ default_radii' = [default_radii EXCEPT !.creator = r.arg]
       /\ IF r.status = "ok"
          THEN /\ ball_pivot_mesh' = r.mesh
               /\ disk' = IF HasTriangles(r.mesh)
                          THEN [disk EXCEPT !.ball_pivot = r.mesh] ELSE disk
               /\ view' = IF HasTriangles(r.mesh)
                          THEN [view EXCEPT !.ball_pivot = r.mesh,
                                            !.ball_pivot_info = InfoText(r.mesh)]
                          ELSE [view EXCEPT !.ball_pivot_info = InfoText(r.mesh)]
               /\ log' = log \o <<Ev("ball_pivot", point_cloud, MeshRes(r.mesh)),
                                  Ev("visualize_ball_pivot", point_cloud, InfoText(r.mesh))>>
               /\ pc' = "done"
          ELSE /\ Crash(<<Ev("ball_pivot", point_cloud, "raise")>>)
               /\ UNCHANGED <<ball_pivot_mesh, disk, view>>
    /\ UNCHANGED <<prev, rng, written, prog, heap, point_cloud, poisson_mesh,
                   save_enabled, widgets, runs, call>>

MainNext ==
    \/ MainLoad
    \/ MainNormals
    \/ MainPoisson
    \/ MainBallPivot

\* ------------------------------------------------------ direct calls
\* A caller that builds an argument and calls one function of utils.py or
\* creator.py; the argument cloud is object 1, a cloud the callee creates is
\* object 2.  deg: the points of the argument that have fewer than 3 usable
\* neighbours, a fact of its geometry (every point, in a cloud of fewer than
\* 3 points).
UnitClouds ==
    {Cloud(n, nm, p, s) : n \in 0..MaxPts, nm \in BOOLEAN, p \in BOOLEAN, s \in Spacings}
ArgHeap(c) == [EmptyHeap EXCEPT ![1] = c]

CallGenerateTetrahedron ==
    /\ prog = "unit" /\ pc = "unit"
    /\ pc' = "returned"
    /\ \E num_points \in 0..MaxN :
          call' = [fn |-> "generate_tetrahedron_point_cloud", num_points |-> num_points,
                   points |-> generate_tetrahedron_point_cloud(num_points),
                   sample |-> rng]
    /\ rng' = rng + 1
    /\ heap' = EmptyHeap
    /\ UNCHANGED <<prev, default_radii, written, prog, point_cloud, results,
                   save_enabled, widgets, view, disk, log, runs>>

CallGenerateSphere ==
    /\ prog = "unit" /\ pc = "unit"
    /\ pc' = "returned"
    /\ \E num_points \in 0..MaxN :
          call' = [fn |-> "generate_sphere_point_cloud", num_points |-> num_points,
                   n |-> generate_sphere_point_cloud(num_points), sample |-> rng]
    /\ rng' = rng + 1
    /\ heap' = EmptyHeap
    /\ UNCHANGED <<prev, default_radii, written, prog, point_cloud, results,
                   save_enabled, widgets, view, disk, log, runs>>

CallLoad ==
    /\ prog = "unit" /\ pc = "unit"
    /\ pc' = "returned"
    /\ \E f \in Files : \E r \in load_point_cloud(f) :
          call' = [fn |-> "load_point_cloud", file |-> f, res |-> r]
    /\ heap' = EmptyHeap
    /\ UNCHANGED <<session, written, prog, point_cloud, results, save_enabled,
                   widgets, view, disk, log, runs>>

CallOrientNormals ==
    /\ prog = "unit" /\ pc = "unit"
    /\ pc' = "returned"
    /\ \E c \in UnitClouds : \E deg \in SUBSET (1..c.n) :
          LET r == orient_normals(ArgHeap(c), 1)
          IN  /\ c.n < 3 => deg = 1..c.n
              /\ heap' = r.heap
              /\ call' = [fn |-> "orient_normals", before |-> c, deg |-> deg,
                          status |-> r.status, err |-> r.err, ret |-> r.ret,
                          reported |-> r.reported]
    /\ UNCHANGED <<session, written, prog, point_cloud, results, save_enabled,
                   widgets, view, disk, log, runs>>

CallPreprocess ==
    /\ prog = "unit" /\ pc = "unit"
    /\ pc' = "returned"
    /\ \E c \in UnitClouds : \E r \in preprocess_point_cloud(ArgHeap(c), 1, 2) :
          /\ heap' = r.heap
          /\ call' = [fn |-> "preprocess_point_cloud", before |-> c,
                      status |-> r.status, err |-> r.err, ret |-> r.ret]
    /\ UNCHANGED <<session, written, prog, point_cloud, results, save_enabled,
                   widgets, view, disk, log, runs>>

CallPoisson ==
    /\ prog = "unit" /\ pc = "unit"
    /\ pc' = "returned"
    /\ \E c \in UnitClouds : \E r \in poisson_reconstruction(ArgHeap(c), 1) :
          /\ heap' = ArgHeap(c)
          /\ call' = [fn |-> "poisson_reconstruction", before |-> c,
                      status |-> r.status, err |-> r.err, mesh |-> r.mesh]
    /\ UNCHANGED <<session, written, prog, point_cloud, results, save_enabled,
                   widgets, view, disk, log, runs>>

\* The radii a caller passes: nothing (the function's default list object),
\* or a list of its own, such as the one the GUI parses from its text.
ExplicitRadii == {ParseRadii(text).radii : text \in {t \in RadiiTexts : ParseRadii(t).status = "ok"}}
PassedRadii(which, explicit) ==
    IF which = "explicit" THEN explicit ELSE default_radii[which]
DefaultRadiiAfter(which, arg) ==
    IF which = "explicit" THEN default_radii ELSE [default_radii EXCEPT ![which] = arg]

CallBallPivoting ==
    /\ prog = "unit" /\ pc = "unit"
    /\ pc' = "returned"
    /\ \E c \in UnitClouds, which \in {"utils", "creator", "explicit"},
          explicit \in ExplicitRadii :
       \E r \in ball_pivoting_reconstruction(ArgHeap(c), 1, PassedRadii(which, explicit)) :
          /\ heap' = ArgHeap(c)
          /\ default_radii' = DefaultRadiiAfter(which, r.arg)
          /\ call' = [fn |-> "ball_pivoting_reconstruction", before |-> c,
                      which |-> which, rel |-> PassedRadii(which, explicit),
                      status |-> r.status, err |-> r.err, mesh |-> r.mesh,
                      radii |-> r.radii]
    /\ UNCHANGED <<prev, rng, written, prog, point_cloud, results, save_enabled,
                   widgets, view, disk, log, runs>>

\* ---------------------------------------------- the same call a second time
\* The caller repeats its call with equal arguments (a cloud argument is
\* built anew, equal to the first one).
Again(c) ==
    /\ prog = "unit" /\ pc = "returned"
    /\ pc' = "again"
    /\ prev' = call
    /\ call' = c
    /\ UNCHANGED <<written, prog, point_cloud, results, save_enabled, widgets,
                   view, disk, log, runs>>

RepeatGenerateTetrahedron ==
    /\ call.fn = "generate_tetrahedron_point_cloud"
    /\ Again([call EXCEPT !.points = generate_tetrahedron_point_cloud(call.num_points),
                          !.sample = rng])
    /\ rng' = rng + 1
    /\ heap' = EmptyHeap
    /\ UNCHANGED default_radii

RepeatGenerateSphere ==
    /\ call.fn = "generate_sphere_point_cloud"
    /\ Again([call EXCEPT !.n = generate_sphere_point_cloud(call.num_points),
                          !.sample = rng])
    /\ rng' = rng + 1
    /\ heap' = EmptyHeap
    /\ UNCHANGED default_radii

RepeatLoad ==
    /\ call.fn = "load_point_cloud"
    /\ \E r \in load_point_cloud(call.file) : Again([call EXCEPT !.res = r])
    /\ heap' = EmptyHeap
    /\ UNCHANGED <<rng, default_radii>>

RepeatOrientNormals ==
    /\ call.fn = "orient_normals"
    /\ LET r == orient_normals(ArgHeap(call.before), 1)
       IN  /\ heap' = r.heap
           /\ Again([call EXCEPT !.status = r.status, !.err = r.err, !.ret = r.ret,
                                 !.reported = r.reported])
    /\ UNCHANGED <<rng, default_radii>>

RepeatPoisson ==
    /\ call.fn = "poisson_reconstruction"
    /\ \E r \in poisson_reconstruction(ArgHeap(call.before), 1) :
          Again([call EXCEPT !.status = r.status, !.err = r.err, !.mesh = r.mesh])
    /\ heap' = ArgHeap(call.before)
    /\ UNCHANGED <<rng, default_radii>>

RepeatBallPivoting ==
    /\ call.fn = "ball_pivoting_reconstruction"
    /\ \E r \in ball_pivoting_reconstruction(ArgHeap(call.before), 1,
                                              PassedRadii(call.which, call.rel)) :
          /\ default_radii' = DefaultRadiiAfter(call.which, r.arg)
          /\ Again([call EXCEPT !.rel = PassedRadii(call.which, call.rel),
                                !.status = r.status, !.err = r.err, !.mesh = r.mesh,
                                !.radii = r.radii])
    /\ heap' = ArgHeap(call.before)
    /\ UNCHANGED rng

\* The nearest-neighbour distances of a cloud of 1..MaxPts points, and of the
\* same cloud scaled uniformly by s (every distance is multiplied by s).
DistanceLists == UNION {[1..k -> 0..MaxSpacing] : k \in 1..MaxPts}
ScaleDistances(distances, s) == [i \in DOMAIN distances |-> s * distances[i]]

\* ball_pivoting_reconstruction's radii on a cloud and on its scaled copy.
CallBallPivotingScaled ==
    /\ prog = "unit" /\ pc = "unit"
    /\ pc' = "returned"
    /\ \E distances \in DistanceLists, s \in 1..MaxScale,
          radii \in {UtilsDefaultRadii, CreatorDefaultRadii} :
          call' = [fn |-> "ball_pivoting_radii", distances |-> distances,
                   scale |-> s, rel |-> radii,
                   avg |-> Mean(Sum(distances), Len(distances)),
                   radii |-> AbsoluteRadii(Sum(distances), Len(distances), radii),
                   scaled_avg |-> Mean(Sum(ScaleDistances(distances, s)),
                                       Len(distances)),
                   scaled_radii |-> AbsoluteRadii(Sum(ScaleDistances(distances, s)),
                                                 Len(distances), radii)]
    /\ heap' = EmptyHeap
    /\ UNCHANGED <<session, written, prog, point_cloud, results, save_enabled,
                   widgets, view, disk, log, runs>>

\* Nonempty clouds given point by point (coincident points included).
PointLists == UNION {[1..k -> {F(x) : x \in 0..MaxCoord}] : k \in 1..MaxPts}

\* The centring and scaling of preprocess_point_cloud on a nonempty cloud.
CallNormalize ==
    /\ prog = "unit" /\ pc = "unit"
    /\ pc' = "returned"
    /\ \E points \in PointLists :
          call' = [fn |-> "normalize", before |-> points, points |-> Normalize(points)]
    /\ heap' = EmptyHeap
    /\ UNCHANGED <<session, written, prog, point_cloud, results, save_enabled,
                   widgets, view, disk, log, runs>>

\* voxel_down_sample on a cloud, and again on what it returned.
CallDownsample ==
    /\ prog = "unit" /\ pc = "unit"
    /\ pc' = "returned"
    /\ \E points \in PointLists :
          LET once == VoxelDownSample(points, F(VoxelEdge))
          IN  call' = [fn |-> "voxel_down_sample", before |-> points, once |-> once,
                       twice |-> VoxelDownSample(once, F(VoxelEdge))]
    /\ heap' = EmptyHeap
    /\ UNCHANGED <<session, written, prog, point_cloud, results, save_enabled,
                   widgets, view, disk, log, runs>>

\* One sampled point of one face of generate_tetrahedron_point_cloud.
CallSampleFace ==
    /\ prog = "unit" /\ pc = "unit"
    /\ pc' = "returned"
    /\ \E face \in 1..FaceCount, u \in UnitSamples, v \in UnitSamples :
          call' = [fn |-> "sample_face", face |-> face, u |-> u, v |-> v,
                   weights |-> BarycentricWeights(u, v)]
    /\ heap' = EmptyHeap
    /\ UNCHANGED <<session, written, prog, point_cloud, results, save_enabled,
                   widgets, view, disk, log, runs>>

\* Spanning structures over n points rooted at point 1, and the estimated
\* normals before orientation.
Parents(n) == {p \in [1..n -> 0..n] : p[1] = 0 /\ \A i \in 2..n : p[i] < i}
PlaneNormals == {<<1, 0>>, <<-1, 0>>, <<0, 1>>, <<-1, 1>>}

\* The sign propagation on one spanning structure.
CallPropagate ==
    /\ prog = "unit" /\ pc = "unit"
    /\ pc' = "returned"
    /\ \E n \in 1..MaxTree : \E parent \in Parents(n), normals \in [1..n -> PlaneNormals] :
          LET r == PropagateSigns(parent, normals)
          IN  call' = [fn |-> "propagate_signs", parent |-> parent, before |-> normals,
                       normals |-> r.normals, visits |-> r.visits, flips |-> r.flips]
    /\ heap' = EmptyHeap
    /\ UNCHANGED <<session, written, prog, point_cloud, results, save_enabled,
                   widgets, view, disk, log, runs>>

\* Triangles over the vertex indices 0..MaxIndex, each naming three distinct
\* vertices in some winding, and meshes of up to MaxFaces of them.
Triangles ==
    {t \in [1..VerticesPerFace -> 0..MaxIndex] :
        \A i, j \in 1..VerticesPerFace : i # j => t[i] # t[j]}
TriangleLists == UNION {[1..k -> Triangles] : k \in 0..MaxFaces}

\* o3d_to_pyvista on a triangle mesh of V vertices; with V = MaxIndex the
\* mesh may name a vertex it does not have.
CallToPyvista ==
    /\ prog = "unit" /\ pc = "unit"
    /\ pc' = "returned"
    /\ \E V \in {MaxIndex, MaxIndex + 1}, triangles \in TriangleLists :
          LET r == o3d_to_pyvista(V, triangles)
          IN  call' = [fn |-> "o3d_to_pyvista", V |-> V, triangles |-> triangles,
                       vertices |-> r.vertices, faces |-> r.faces]
    /\ heap' = EmptyHeap
    /\ UNCHANGED <<session, written, prog, point_cloud, results, save_enabled,
                   widgets, view, disk, log, runs>>

UnitNext ==
    \/ CallToPyvista
    \/ CallPropagate
    \/ RepeatGenerateTetrahedron
    \/ RepeatGenerateSphere
    \/ RepeatLoad
    \/ RepeatOrientNormals
    \/ RepeatPoisson
    \/ RepeatBallPivoting
    \/ CallSampleFace
    \/ CallDownsample
    \/ CallNormalize
    \/ CallBallPivotingScaled
    \/ CallGenerateTetrahedron
    \/ CallGenerateSphere
    \/ CallLoad
    \/ CallOrientNormals
    \/ CallPreprocess
    \/ CallPoisson
    \/ CallBallPivoting

Next == GuiNext \/ MainNext \/ UnitNext

Spec == Init /\ [][Next]_vars

\* ================================================================== claims
Reconstructors == {"poisson", "ball_pivot"}

\* C1: in every run a reconstructor is invoked on a cloud only after normal
\* estimation has completed on that same cloud in that run.
C1_NormalsBeforeReconstruction ==
    \A i \in DOMAIN log :
        log[i].ev \in Reconstructors =>
            \E j \in 1..(i - 1) :
                log[j].ev = "orient_normals" /\ log[j].obj = log[i].obj /\ log[j].res = "ok"

\* C2: a reconstructor's mesh with zero triangles is reported as failed by the
\* caller, which goes on; such a mesh is never displayed and never written
\* to an output file (GUI and creator.main, Poisson and Ball Pivoting).
C2_EmptyMeshFlagged ==
    /\ \A m \in {view.poisson, view.ball_pivot, disk.poisson, disk.ball_pivot} :
          ~m.isNone => HasTriangles(m)
    /\ \A i \in DOMAIN log :
          log[i].ev \in Reconstructors /\ log[i].res = "empty" =>
              /\ i < Len(log)
              /\ log[i + 1].ev = IF log[i].ev = "poisson"
                                 THEN "visualize_poisson" ELSE "visualize_ball_pivot"
              /\ log[i + 1].res = Failed
    /\ log # <<>> /\ log[Len(log)].res = Failed => pc \notin {"return", "crashed"}
    /\ pc \in {"ball_pivot", "finish", "done"} /\ poisson_check /\ ~poisson_mesh.isNone
          /\ ~HasTriangles(poisson_mesh) /\ poisson_mesh.src = point_cloud
          => view.poisson_info = Failed

\* C2 witness: the GUI holds an empty Poisson mesh made from the current cloud
\* and Save Results has written that cloud.
C2_Witness ==
    /\ prog = "gui" /\ pc = "idle"
    /\ ~poisson_mesh.isNone /\ ~HasTriangles(poisson_mesh)
    /\ poisson_mesh.src = point_cloud
    /\ disk.pcd = point_cloud
    /\ view.poisson_info = Failed

\* C3: generate_tetrahedron_point_cloud(n) returns exactly n points for every
\* n >= 0.
C3_TetrahedronExactCount ==
    call.fn = "generate_tetrahedron_point_cloud" => Len(call.points) = call.num_points

\* C4: load never returns a cloud of zero points; an .xyz or .pcd file that
\* yields zero points makes it fail with EmptyResultError.
C4_LoadNeverEmpty ==
    call.fn = "load_point_cloud" =>
        /\ call.res.status = "ok" => call.res.n > 0
        /\ (call.file.exists /\ call.file.ext \in {"xyz", "pcd"}
               /\ call.file.wellformed /\ call.file.rows = 0)
           => (call.res.status = "raise" /\ call.res.err = "EmptyResultError")

\* C5: load fails with NotFoundError when the path does not exist, whatever
\* its extension, and with FormatError when it exists with an extension other
\* than .xyz and .pcd; in both cases no cloud is returned and no external
\* loader is invoked.
C5_LoadPathErrors ==
    call.fn = "load_point_cloud" =>
        /\ ~call.file.exists =>
              call.res.status = "raise" /\ call.res.err = "NotFoundError"
              /\ call.res.ext = "none"
        /\ call.file.exists /\ call.file.ext \notin {"xyz", "pcd"} =>
              call.res.status = "raise" /\ call.res.err = "FormatError"
              /\ call.res.ext = "none"

\* C5 witness: load was called on a missing path with an unsupported
\* extension and failed with NotFoundError.
C5_Witness ==
    /\ call.fn = "load_point_cloud"
    /\ ~call.file.exists /\ call.file.ext = "txt"
    /\ call.res.err = "NotFoundError"

\* C6: Ball Pivoting on an empty cloud returns a mesh with 0 triangles and
\* never raises.
C6_BallPivotEmptyCloud ==
    call.fn = "ball_pivoting_reconstruction" /\ call.before.n = 0 =>
        call.status = "ok" /\ ~call.mesh.isNone /\ call.mesh.tri = 0

\* C7: normal estimation reports exactly the points with fewer than 3 usable
\* neighbours and goes on; for a 4-point cloud all 4 points are reported and
\* nothing else fails.
C7_DegenerateReported ==
    call.fn = "orient_normals" =>
        /\ call.reported = call.deg
        /\ call.before.n = 4 => call.reported = 1..4 /\ call.status = "ok"

\* C8: with both reconstructors requested, a failure of Poisson (an error or
\* an empty mesh) never prevents Ball Pivoting from running, and a failure of
\* Ball Pivoting never discards the Poisson result.
C8_ReconstructorsIndependent ==
    prog = "gui" /\ pc = "return" /\ poisson_check /\ ball_pivot_check =>
        \A i \in DOMAIN log :
            /\ log[i].ev = "poisson" =>
                  \E j \in DOMAIN log : log[j].ev \in {"ball_pivot", "parse_radii"}
            /\ log[i].ev = "poisson" /\ log[i].res # "raise" =>
                  ~poisson_mesh.isNone /\ poisson_mesh.src = log[i].obj

\* C9: after preprocess_point_cloud or orient_normals returns, the caller's
\* cloud object is unchanged and the returned cloud is a distinct object.
C9_StagesValueProducing ==
    call.fn \in {"preprocess_point_cloud", "orient_normals"} /\ call.status = "ok" =>
        heap[1] = call.before /\ call.ret # 1

\* C10: normal estimation and reconstruction only ever receive a cloud that
\* the Preprocessor stage has been applied to.
C10_PreprocessedFirst ==
    \A i \in DOMAIN log :
        log[i].ev \in Reconstructors \cup {"orient_normals"} => heap[log[i].obj].prep

C12_NormalizeCentredUnit ==
    call.fn = "normalize" =>
        /\ Centroid(call.points) = F(0)
        /\ MaxNorm(call.points) = F(1)

\* C13: downsampling yields at most as many points as its input and is
\* idempotent: downsampling its own output again with the same voxel size
\* returns the same set of points.
C13_DownsampleIdempotent ==
    call.fn = "voxel_down_sample" =>
        /\ Len(call.once) <= Len(call.before)
        /\ {call.twice[i] : i \in DOMAIN call.twice}
              = {call.once[i] : i \in DOMAIN call.once}

\* C14: every generated tetrahedron point lies in the convex hull of the
\* face's vertices: for every sampled pair (u, v) of [0,1] x [0,1], after the
\* single reflection step (taken exactly when u + v > 1) the weights u, v and
\* w = 1 - u - v are all >= 0 and sum to 1.
C14_BarycentricInsideFace ==
    call.fn = "sample_face" =>
        /\ ~FLess(call.weights.u, F(0))
        /\ ~FLess(call.weights.v, F(0))
        /\ ~FLess(call.weights.w, F(0))
        /\ FAdd(FAdd(call.weights.u, call.weights.v), call.weights.w) = F(1)
        /\ IF FLess(F(1), FAdd(call.u, call.v))
           THEN /\ call.weights.u = FSub(F(1), call.u)
                /\ call.weights.v = FSub(F(1), call.v)
           ELSE /\ call.weights.u = call.u
                /\ call.weights.v = call.v
C14_Witness ==
    /\ call.fn = "sample_face"
    /\ FLess(F(1), FAdd(call.u, call.v))
    /\ call.weights.u # call.u
    /\ FLess(call.v, F(1))

\* What a direct call returned, as far as its arguments decide it: not the
\* triangle count (it depends on the geometry of the points) and not the
\* outcome of a load that differs between builds of the library.
Generators == {"generate_sphere_point_cloud", "generate_tetrahedron_point_cloud"}
Outcome(c) ==
    CASE c.fn = "generate_sphere_point_cloud" -> <<c.n, c.sample>>
      [] c.fn = "generate_tetrahedron_point_cloud" -> <<c.points, c.sample>>
      [] c.fn = "load_point_cloud" ->
            IF Cardinality(load_point_cloud(c.file)) = 1 THEN <<c.res>> ELSE <<>>
      [] c.fn = "orient_normals" -> <<c.status, c.err, c.ret, c.reported>>
      [] c.fn = "poisson_reconstruction" -> <<c.status, c.err>>
      [] c.fn = "ball_pivoting_reconstruction" -> <<c.status, c.err, c.radii>>
      [] OTHER -> <<>>
InitialDefaultRadii == [utils |-> UtilsDefaultRadii, creator |-> CreatorDefaultRadii]

C16_SavedMeshFromSavedCloud ==
    /\ ~written.poisson.isNone => written.poisson.src = written.pcd
    /\ ~written.ball_pivot.isNone => written.ball_pivot.src = written.pcd

\* The errors that end a Process run: no file selected, a failed load, and
\* an exception caught by the handler's outer try.
AbortReports == {"Please select a file first", "Error loading file", "Processing error"}
Aborted(l) == \E i \in DOMAIN l : l[i].ev = "show_error" /\ l[i].res \in AbortReports
Stages == {"orient_normals", "poisson", "ball_pivot"}

\* C17: the Save Results button is enabled only if a point cloud is stored.
\* It starts disabled; it becomes enabled only at the end of a Process run
\* that stored a cloud (generated or loaded) and in which no error ended the
\* run; once enabled it is never disabled again.
C17_SaveEnabledNeedsCloud ==
    /\ ~save_enabled
    /\ [](save_enabled => point_cloud # 0)
    /\ [][/\ save_enabled => save_enabled'
          /\ ~save_enabled /\ save_enabled' =>
                /\ prog = "gui" /\ pc = "finish" /\ pc' = "return"
                /\ point_cloud = runs
                /\ \E i \in DOMAIN log :
                      log[i].ev \in {"generate", "load"} /\ log[i].res = "ok"
                /\ ~Aborted(log')]_vars
C17_Witness ==
    /\ save_enabled
    /\ pc = "return"
    /\ runs = MaxRuns
    /\ Aborted(log)

\* C18: a Process run with source "Upload File" that has no file selected,
\* or whose load raises, reports the error and returns, leaving the stored
\* point cloud, both stored meshes and the enabled state of the Save button
\* as they were; no normal estimation or reconstruction runs in it.
C18_FailedUploadChangesNothing ==
    [][/\ prog = "gui" /\ pc = "source" /\ source_combo = "Upload File" =>
             \/ /\ pc' = "normals"
                /\ log'[Len(log') - 1] = Ev("load", runs, "ok")
             \/ /\ pc' = "return"
                /\ log'[Len(log')].ev = "show_error"
                /\ log'[Len(log')].res
                      \in {"Please select a file first", "Error loading file"}
                /\ \A i \in DOMAIN log' : log'[i].ev \notin Stages
                /\ UNCHANGED <<point_cloud, heap, poisson_mesh, ball_pivot_mesh,
                               save_enabled>>
       /\ pc = "return" =>
             /\ pc' = "idle"
             /\ UNCHANGED <<point_cloud, heap, poisson_mesh, ball_pivot_mesh,
                            save_enabled>>]_vars
C18_Witness ==
    /\ prog = "gui" /\ pc = "return"
    /\ source_combo = "Upload File"
    /\ log # <<>>
    /\ log[Len(log)].res = "Error loading file"
    /\ point_cloud # 0
    /\ save_enabled
    /\ ~poisson_mesh.isNone

\* C19: Ball Pivoting executes its radius passes in ascending order of
\* absolute radius, whatever order the caller's list supplies them in.
C19_PassesAscending ==
    call.fn = "ball_pivoting_reconstruction" /\ call.status = "ok" =>
        \A i, j \in DOMAIN call.radii :
            i < j => ~FLess(call.radii[j], call.radii[i])

\* The points tied to the root by spanning edges.
RECURSIVE Connected(_, _)
Connected(parent, i) == i = 1 \/ (parent[i] # 0 /\ Connected(parent, parent[i]))

\* C20: after sign propagation terminates every point connected to the root
\* in the spanning structure has been visited exactly once (and no other
\* point), for every spanning edge (parent, child) of the root's tree the
\* dot product of the two final normals is non-negative, and a normal is
\* flipped at most once.
C20_SignPropagation ==
    call.fn = "propagate_signs" =>
        \A i \in DOMAIN call.parent :
            /\ call.visits[i] = IF Connected(call.parent, i) THEN 1 ELSE 0
            /\ call.flips[i] <= 1
            /\ call.normals[i] = IF call.flips[i] = 1 THEN Neg(call.before[i])
                                  ELSE call.before[i]
            /\ Connected(call.parent, i) /\ i # 1 =>
                  Dot(call.normals[call.parent[i]], call.normals[i]) >= 0
C20_Witness ==
    /\ call.fn = "propagate_signs"
    /\ Len(call.parent) = MaxTree
    /\ \E i, j \in DOMAIN call.parent :
          /\ call.parent[j] = i /\ call.flips[i] = 1 /\ call.flips[j] = 1
          /\ Dot(call.before[i], call.before[j]) > 0

\* C21: for a mesh of T triangles over V vertices o3d_to_pyvista emits a flat
\* face array of length 4*T whose entry 4i is 3 and whose entries 4i+1..4i+3
\* are triangle i's vertex indices in their original order (entries counted
\* from 0); so the triangles and their winding are kept, and every emitted
\* vertex index is < V if that holds of the input mesh.
C21_FlatFaceArray ==
    call.fn = "o3d_to_pyvista" =>
        LET T == Len(call.triangles)
        IN  /\ Len(call.faces) = 4 * T
            /\ call.vertices = call.V
            /\ \A i \in 0..(T - 1) :
                  /\ call.faces[4 * i + 1] = 3
                  /\ \A j \in 1..3 : call.faces[4 * i + 1 + j] = call.triangles[i + 1][j]
            /\ (\A i \in 1..T : \A j \in 1..3 : call.triangles[i][j] < call.V) =>
                  \A k \in 1..Len(call.faces) : (k - 1) % 4 # 0 => call.faces[k] < call.V
C21_Witness ==
    /\ call.fn = "o3d_to_pyvista"
    /\ Len(call.triangles) = MaxFaces
    /\ call.triangles[1] # call.triangles[MaxFaces]
    /\ call.triangles[1][1] > call.triangles[1][2]
    /\ \A i \in DOMAIN call.triangles : \A j \in 1..3 : call.triangles[i][j] < call.V

====
